---------------------------- MODULE Spec2Model ----------------------------
(***************************************************************************)
(* A model of src/src/des/algorithm.py: the DES estimator of the number of *)
(* distinct elements of a stream (class DES and calculate_threshold).      *)
(*                                                                         *)
(* Callers are threads.  Every caller works on the instance target[c].     *)
(* A `with self.rlock` block of the code is a group of steps during which  *)
(* rlock names the caller; the statements outside such a block are steps   *)
(* taken with the lock free.                                               *)
(*                                                                         *)
(* Numbers: a probability is the exact fraction <<num, den>>.  The output  *)
(* sequence of random.Random(seed) is a function of the seed: tape holds   *)
(* what is known of that sequence, and rand[i] is the position of the      *)
(* generator of instance i in it.                                          *)
(***************************************************************************)
EXTENDS Integers, Sequences, FiniteSets, TLC

\* ------------------------------------------------------------- bounds
MaxLen == 2          \* items the sources produce in one behaviour
MaxCalls == 2        \* operations invoked in one behaviour
MaxThreshold == 2    \* largest fixed integer threshold of an instance

Callers == {1, 2}
Instances == {1, 2}
Items == {"a", "b"}
None == "None"
NoResult == -1
NoOwner == 0

PollRates == {1, 2}
StreamSizes == {0, 1, 2}
\* DES(threshold=v) for an integer v, and DES(relative_error_tolerance=e,
\* failure_probability=d) with the default threshold=calculate_threshold
Configs ==
    {[callable |-> FALSE, value |-> v, eps |-> <<1, 2>>, delta |-> <<1, 2>>] :
        v \in 0 .. MaxThreshold}
    \cup {[callable |-> TRUE, value |-> 0, eps |-> e, delta |-> <<1, 2>>] :
            e \in {<<0, 1>>, <<1, 2>>, <<1, 1>>}}
    \cup {[callable |-> TRUE, value |-> 0, eps |-> <<1, 2>>, delta |-> d] :
            d \in {<<0, 1>>, <<1, 1>>}}

\* ------------------------------------------------------------- state
VARIABLES
    \* the fields of a DES instance
    acc_set, cur_probability, threshold_hit_count, distinct_item_count,
    rand, rlock,
    \* what __init__ was given (the same for every instance): the threshold,
    \* relative_error_tolerance and failure_probability in config, the seed
    \* as the output sequence of Random(seed) in tape
    config, tape,
    \* for the runs that repeat a run of the same process: the element of the
    \* set for which the j-th value of the sequence was drawn in a down-sample
    \* pass
    visited,
    \* a caller: its position in the code, the operation it runs, its source
    \* and the locals of distinct
    pc, op, poll_rate, stream, pos, thresh, item, i, estimate, result, error,
    \* the arguments of a caller's last call of calculate_threshold or
    \* get_threshold
    asked,
    \* bookkeeping, read by the harness and the properties only (updates:
    \* item updates since the last reset; stale: item updates since
    \* distinct_item_count was last assigned)
    target, calls, produced, fed, updates, stale, writers

instvars == <<acc_set, cur_probability, threshold_hit_count,
              distinct_item_count, rand, rlock>>
confvars == <<config, target>>
locvars == <<pc, op, poll_rate, stream, pos, thresh, item, i, estimate,
             result, error, asked>>
ghostvars == <<calls, produced, fed, updates, stale, writers>>
vars == <<instvars, confvars, tape, visited, locvars, ghostvars>>

\* ------------------------------------------------ calculate_threshold
\* floor(10^6 * ln(x)) for x in 1 .. 64 (math.log)
LogTable ==
    <<0, 693147, 1098612, 1386294, 1609437, 1791759, 1945910, 2079441,
      2197224, 2302585, 2397895, 2484906, 2564949, 2639057, 2708050, 2772588,
      2833213, 2890371, 2944438, 2995732, 3044522, 3091042, 3135494, 3178053,
      3218875, 3258096, 3295836, 3332204, 3367295, 3401197, 3433987, 3465735,
      3496507, 3526360, 3555348, 3583518, 3610917, 3637586, 3663561, 3688879,
      3713572, 3737669, 3761200, 3784189, 3806662, 3828641, 3850147, 3871201,
      3891820, 3912023, 3931825, 3951243, 3970291, 3988984, 4007333, 4025351,
      4043051, 4060443, 4077537, 4094344, 4110873, 4127134, 4143134, 4158883>>

\* 10^6 * ln(num / den)
math_log(num, den) == LogTable[num] - LogTable[den]

RECURSIVE Pow2(_)
Pow2(k) == IF k = 0 THEN 1 ELSE 2 * Pow2(k - 1)

\* A float argument is <<num, den>>, the fraction num / den, or
\* <<1, 1, k>>, the power of two 2^-k, for the values near the end of the
\* range of a float: the least positive float is 2^-FloatMinExp, and a
\* result of 2^FloatMaxExp or more is inf.
FloatMinExp == 1074
FloatMaxExp == 1024
Exp2(x) == IF Len(x) = 3 THEN x[3] ELSE 0

\* math.pow(x, 2) rounds to 0.0
pow_is_zero(x) == 2 * Exp2(x) > FloatMinExp

\* 12.0 / math.pow(x, 2) is inf: 12 * 2^2k = 1.5 * 2^(2k + 3)
quotient_is_inf(x) == 2 * Exp2(x) + 3 >= FloatMaxExp

\* (12.0 / math.pow(x, 2)) * l is inf, for a logarithm l given in
\* millionths: 12 * l * 2^2k >= 2^FloatMaxExp (12 * l is below 2^14)
product_is_inf(x, l) ==
    /\ Exp2(x) > 0
    /\ \/ FloatMaxExp - 2 * Exp2(x) <= 0
       \/ /\ FloatMaxExp - 2 * Exp2(x) < 14
          /\ 12 * (l \div 1000)
                 >= 1000 * Pow2(FloatMaxExp - 2 * Exp2(x))

\* (8.0 * stream_size) / x is inf: stream_size * 2^(k + 3) >= 2^FloatMaxExp
ratio_is_inf(stream_size, x) ==
    /\ Exp2(x) > 0
    /\ \/ Exp2(x) + 3 >= FloatMaxExp
       \/ /\ FloatMaxExp - (Exp2(x) + 3) < 30
          /\ stream_size >= Pow2(FloatMaxExp - (Exp2(x) + 3))

Ceil(a, b) == (a + b - 1) \div b

raise(e) == [raised |-> TRUE, error |-> e, value |-> 0]

\* [raised |-> an exception was raised, error |-> which one,
\*  value |-> the threshold returned]
calculate_threshold(stream_size, eps, delta) ==
    IF eps[1] <= 0 \/ (Exp2(eps) = 0 /\ eps[1] >= eps[2])
    THEN raise("ValueError")
    ELSE IF delta[1] <= 0 \/ (Exp2(delta) = 0 /\ delta[1] >= delta[2])
    THEN raise("ValueError")
    ELSE IF stream_size <= 0 THEN raise("ValueError")
    \* 12.0 / 0.0
    ELSE IF pow_is_zero(eps) THEN raise("ZeroDivisionError")
    \* math.ceil(inf)
    ELSE IF quotient_is_inf(eps) \/ ratio_is_inf(stream_size, delta)
    THEN raise("OverflowError")
    ELSE IF product_is_inf(eps, math_log(8 * stream_size * delta[2], delta[1])
                                    + Exp2(delta) * LogTable[2])
    THEN raise("OverflowError")
    ELSE [raised |-> FALSE, error |-> "none",
          value |-> Ceil(12 * eps[2] * eps[2] * Pow2(2 * Exp2(eps))
                            * (math_log(8 * stream_size * delta[2], delta[1])
                                   + Exp2(delta) * LogTable[2]),
                         eps[1] * eps[1] * 1000000)]

\* ---------------------------------------------------------- helpers
\* fractions <<num, den>> with den > 0
Lt(a, b) == a[1] * b[2] < b[1] * a[2]

HalfForgotten(p) == p

HalfTwice(p) == <<p[1], 4 * p[2]>>

Half(p) == <<p[1], 2 * p[2]>>

EstimateUnscaled(inst) == Cardinality(acc_set[inst])

\* int(math.floor(len(self.acc_set) / self.cur_probability))
Estimate(inst) ==
    (Cardinality(acc_set[inst]) * cur_probability[inst][2])
        \div cur_probability[inst][1]

\* ---------------------------------------------------- random.Random
\* The j-th value of Random(seed) is a number of [0, 1) that the seed fixes.
\* tape[j] is what the comparisons made so far have shown of it, the
\* interval <<lo, hi>> with lo <= value < hi; a value not yet drawn is only
\* known to lie in [0, 1).
Unknown == <<<<0, 1>>, <<1, 1>>>>

\* what is known of the j-th value of the sequence
Known(j) == IF j <= Len(tape) THEN tape[j] ELSE Unknown

\* self.rand.random() < t for a value known to lie in iv: the answers that
\* iv allows, each with what is known of the value afterwards
Below(iv, t) ==
    (IF Lt(iv[1], t)
     THEN {[below |-> TRUE, iv |-> <<iv[1], IF Lt(t, iv[2]) THEN t ELSE iv[2]>>]}
     ELSE {})
    \cup
    (IF Lt(t, iv[2])
     THEN {[below |-> FALSE, iv |-> <<IF Lt(iv[1], t) THEN t ELSE iv[1], iv[2]>>]}
     ELSE {})

\* n consecutive calls of self.rand.random() from position first of the
\* sequence, each compared with t
Draws(first, n, t) ==
    {ds \in [1 .. n -> UNION {Below(Known(first + j - 1), t) : j \in 1 .. n}] :
        \A j \in 1 .. n : ds[j] \in Below(Known(first + j - 1), t)}

\* the tape tp with what the draws ds, made from position first, have shown
Written(tp, first, ds) ==
    [j \in 1 .. (IF Len(tp) > first + Len(ds) - 1
                 THEN Len(tp) ELSE first + Len(ds) - 1)
        |-> IF j >= first /\ j < first + Len(ds) THEN ds[j - first + 1].iv
            ELSE tp[j]]

\* the orders in which a set can be iterated
Orders(S) ==
    {f \in [1 .. Cardinality(S) -> S] :
        \A x, y \in 1 .. Cardinality(S) : f[x] = f[y] => x = y}

\* the order of a pass whose draws start at position first of the sequence
\* is the one recorded in visited, when one is recorded for this set
AsVisited(order, first) ==
    (\A k \in DOMAIN order :
        first + k - 1 <= Len(visited)
            /\ visited[first + k - 1] \in {order[j] : j \in DOMAIN order})
        => \A k \in DOMAIN order : visited[first + k - 1] = order[k]

\* visited with the order of the pass recorded
Visit(order, first) ==
    [j \in 1 .. (IF Len(visited) > first + Len(order) - 1
                 THEN Len(visited) ELSE first + Len(order) - 1)
        |-> IF j >= first /\ j < first + Len(order) THEN order[j - first + 1]
            ELSE IF j <= Len(visited) THEN visited[j]
            ELSE None]

\* a source that is read as it is produced: nothing of it is known yet
OpenSource == [items |-> <<>>, closed |-> FALSE]

\* ------------------------------------------------------------- Init
InitInstance ==
    /\ acc_set = [n \in Instances |-> {}]
    /\ cur_probability = [n \in Instances |-> <<1, 1>>]
    /\ threshold_hit_count = [n \in Instances |-> 0]
    /\ distinct_item_count = [n \in Instances |-> 0]
    /\ rand = [n \in Instances |-> 0]
    /\ rlock = [n \in Instances |-> NoOwner]
    /\ updates = [n \in Instances |-> 0]
    /\ stale = [n \in Instances |-> 0]

InitCallers ==
    /\ pc = [c \in Callers |-> "idle"]
    /\ op = [c \in Callers |-> "none"]
    /\ poll_rate = [c \in Callers |-> 1]
    /\ stream = [c \in Callers |-> OpenSource]
    /\ pos = [c \in Callers |-> 0]
    /\ thresh = [c \in Callers |-> 0]
    /\ item = [c \in Callers |-> None]
    /\ i = [c \in Callers |-> 0]
    /\ estimate = [c \in Callers |-> NoResult]
    /\ result = [c \in Callers |-> NoResult]
    /\ error = [c \in Callers |-> "none"]
    /\ asked = [c \in Callers |-> <<>>]
    /\ fed = [c \in Callers |-> 0]
    /\ calls = 0
    /\ writers = {}
    /\ produced = 0

\* every caller shares instance 1
Init ==
    /\ InitInstance
    /\ InitCallers
    /\ config \in Configs
    /\ tape = <<>>
    /\ visited = <<>>
    /\ target = [c \in Callers |-> 1]

\* ------------------------------------------------------- DES.reset
reset_keeps_generator(inst) ==
    /\ distinct_item_count' = [distinct_item_count EXCEPT ![inst] = 0]
    /\ threshold_hit_count' = [threshold_hit_count EXCEPT ![inst] = 0]
    /\ acc_set' = [acc_set EXCEPT ![inst] = {}]
    /\ cur_probability' = [cur_probability EXCEPT ![inst] = <<1, 1>>]
    /\ updates' = [updates EXCEPT ![inst] = 0]
    /\ stale' = [stale EXCEPT ![inst] = 0]
    /\ UNCHANGED rand

\* lines 86-92, the body of reset() on instance inst
reset(inst) ==
    /\ distinct_item_count' = [distinct_item_count EXCEPT ![inst] = 0]
    /\ threshold_hit_count' = [threshold_hit_count EXCEPT ![inst] = 0]
    /\ rand' = [rand EXCEPT ![inst] = 0]
    /\ acc_set' = [acc_set EXCEPT ![inst] = {}]
    /\ cur_probability' = [cur_probability EXCEPT ![inst] = <<1, 1>>]
    /\ updates' = [updates EXCEPT ![inst] = 0]
    /\ stale' = [stale EXCEPT ![inst] = 0]

NoReset ==
    UNCHANGED <<distinct_item_count, threshold_hit_count, rand, acc_set,
                cur_probability, updates, stale>>

\* caller c, which runs nothing, calls operation o: the locals of its last
\* operation are gone
Call(c, o) ==
    /\ pc[c] \in {"idle", "done", "raised"}
    /\ calls' = calls + 1
    /\ writers' = IF o \in {"distinct", "reset"}
                  THEN writers \cup {c} ELSE writers
    /\ op' = [op EXCEPT ![c] = o]
    /\ pos' = [pos EXCEPT ![c] = 0]
    /\ item' = [item EXCEPT ![c] = None]
    /\ estimate' = [estimate EXCEPT ![c] = NoResult]
    /\ fed' = [fed EXCEPT ![c] = 0]

\* at most MaxCalls calls are made; of two callers that have not yet called,
\* the lower one calls first
Budget(c) ==
    /\ calls < MaxCalls
    /\ \A d \in Callers : d < c => pc[d] # "idle"

Invoke(c, o) == Budget(c) /\ Call(c, o)

\* reset(): lines 84-92, one block under the lock
reset_call(c) ==
    /\ Invoke(c, "reset")
    /\ rlock[target[c]] = NoOwner
    /\ reset(target[c])
    /\ pc' = [pc EXCEPT ![c] = "done"]
    /\ result' = [result EXCEPT ![c] = NoResult]
    /\ error' = [error EXCEPT ![c] = "none"]
    /\ UNCHANGED <<rlock, asked, confvars, tape, visited, poll_rate, stream, thresh, i, produced>>

\* ------------------------------------------ DES.get_threshold_hit_count
\* lines 105-107, one block under the lock
get_threshold_hit_count(c) ==
    /\ Invoke(c, "get_threshold_hit_count")
    /\ rlock[target[c]] = NoOwner
    /\ result' = [result EXCEPT ![c] = threshold_hit_count[target[c]]]
    /\ pc' = [pc EXCEPT ![c] = "done"]
    /\ error' = [error EXCEPT ![c] = "none"]
    /\ UNCHANGED <<instvars, asked, confvars, tape, visited, poll_rate, stream, thresh, i,
                   produced, updates, stale>>

\* ------------------------------------------------- DES.get_threshold
get_threshold_always_computed(stream_size) ==
    calculate_threshold(stream_size, config.eps, config.delta)

\* lines 95-103 (and the same expression at 132-138): the threshold for a
\* declared stream size
get_threshold(stream_size) ==
    IF config.callable
    THEN calculate_threshold(stream_size, config.eps, config.delta)
    ELSE [raised |-> FALSE, error |-> "none", value |-> config.value]

\* ------------------------------------------------------ DES.distinct
\* lines 132-138: the threshold of a distinct call, the expression of
\* get_threshold written out again
distinct_thresh(stream_size) ==
    IF config.callable
    THEN calculate_threshold(stream_size, config.eps, config.delta)
    ELSE [raised |-> FALSE, error |-> "none", value |-> config.value]

always_reset(inst, reset_state) ==
    rlock[inst] = NoOwner /\ reset(inst)

\* lines 128-129: if reset_state is True: self.reset()
optional_reset(inst, reset_state) ==
    IF reset_state
    THEN rlock[inst] = NoOwner /\ reset(inst)
    ELSE NoReset

\* lines 128-145 of distinct(src, stream_size, reset_state, rate): the
\* optional reset() under the lock, the threshold, the assert, i = 0
distinct_body(c, src, stream_size, reset_state, rate) ==
    /\ Call(c, "distinct")
    /\ optional_reset(target[c], reset_state)
    /\ LET t == distinct_thresh(stream_size)
       IN  IF t.raised
           THEN /\ error' = [error EXCEPT ![c] = t.error]
                /\ pc' = [pc EXCEPT ![c] = "raised"]
                /\ UNCHANGED thresh
           ELSE IF ~(t.value > 0)
           THEN /\ error' = [error EXCEPT ![c] = "AssertionError"]
                /\ pc' = [pc EXCEPT ![c] = "raised"]
                /\ UNCHANGED thresh
           ELSE /\ error' = [error EXCEPT ![c] = "none"]
                /\ thresh' = [thresh EXCEPT ![c] = t.value]
                /\ pc' = [pc EXCEPT ![c] = "L146"]
    /\ stream' = [stream EXCEPT ![c] = src]
    /\ poll_rate' = [poll_rate EXCEPT ![c] = rate]
    /\ i' = [i EXCEPT ![c] = 0]
    /\ result' = [result EXCEPT ![c] = NoResult]
    /\ UNCHANGED <<rlock, asked, confvars, tape, visited, produced>>

distinct_enter(c, src, stream_size, reset_state, rate) ==
    Budget(c) /\ distinct_body(c, src, stream_size, reset_state, rate)

distinct_call(c) ==
    \E stream_size \in StreamSizes, reset_state \in BOOLEAN, rate \in PollRates :
        distinct_enter(c, OpenSource, stream_size, reset_state, rate)

\* what next(stream, None) can give: the next item of a source whose content
\* is known; of a source read as it is produced, None at its end or any
\* further item (None is a value like another)
SourceNext(c) ==
    IF stream[c].closed
    THEN {IF pos[c] < Len(stream[c].items)
          THEN [end |-> FALSE, item |-> stream[c].items[pos[c] + 1]]
          ELSE [end |-> TRUE, item |-> None]}
    ELSE {[end |-> TRUE, item |-> None]}
            \cup (IF produced < MaxLen
                  THEN {[end |-> FALSE, item |-> x] : x \in Items \cup {None}}
                  ELSE {})

Pull(c, n) ==
    /\ stream' = [stream EXCEPT ![c].closed = stream[c].closed \/ n.end]
    /\ pos' = [pos EXCEPT ![c] = IF n.end THEN pos[c] ELSE pos[c] + 1]
    /\ produced' = IF n.end \/ stream[c].closed THEN produced ELSE produced + 1
    /\ item' = [item EXCEPT ![c] = n.item]

release_forgotten(inst) == UNCHANGED rlock

\* the end of a with self.rlock block, left normally or by an exception
release(inst) == rlock' = [rlock EXCEPT ![inst] = NoOwner]

\* the locals of a call are gone when it returns or raises
Leave(c) ==
    /\ item' = [item EXCEPT ![c] = None]
    /\ i' = [i EXCEPT ![c] = 0]
    /\ thresh' = [thresh EXCEPT ![c] = 0]
    /\ poll_rate' = [poll_rate EXCEPT ![c] = 1]

ContinueNeverPolls(c) ==
    /\ pc' = [pc EXCEPT ![c] = "L146"]
    /\ i' = [i EXCEPT ![c] = i[c] + 1]

\* after the with block of an item: line 169, and with no poll due line 176
\* and back to line 146
Continue(c) ==
    IF i[c] % poll_rate[c] = 0
    THEN /\ pc' = [pc EXCEPT ![c] = "L169"]
         /\ UNCHANGED i
    ELSE /\ pc' = [pc EXCEPT ![c] = "L146"]
         /\ i' = [i EXCEPT ![c] = i[c] + 1]

\* lines 148-152 on the set acc: forget the item, keep it when the draw is
\* below cur_probability
Inserted(acc, x, below) == IF below THEN (acc \ {x}) \cup {x} ELSE acc \ {x}

\* lines 158-160: the elements of the set, visited in the order given, that
\* are kept: those whose draw is >= 0.5
Kept(order, ds) == {order[j] : j \in {k \in DOMAIN order : ~ds[k].below}}

above_threshold(size, t) == size > t

\* line 154: if len(self.acc_set) >= thresh
at_threshold(size, t) == size >= t

\* line 146 giving an item, and lines 147-160: take the lock, forget the
\* item, keep it with probability cur_probability; then, with the set at the
\* threshold, count the hit and down sample the set (the lock stays held for
\* lines 161-167), and with the set below it leave the with block
update(c, repeated) ==
    /\ pc[c] = "L146"
    /\ rlock[target[c]] = NoOwner
    /\ LET inst == target[c] IN
       \E n \in SourceNext(c) :
       \E d \in Draws(rand[inst] + 1, 1, cur_probability[inst]) :
        /\ n.item # None
        /\ Pull(c, n)
        /\ LET acc == Inserted(acc_set[inst], n.item, d[1].below)
               size == Cardinality(acc)
           IN  IF at_threshold(size, thresh[c])
               THEN \E ds \in Draws(rand[inst] + 2, size, <<1, 2>>) :
                    \E order \in Orders(acc) :
                     /\ repeated => AsVisited(order, rand[inst] + 2)
                     /\ visited' = IF repeated
                                   THEN Visit(order, rand[inst] + 2)
                                   ELSE visited
                     /\ threshold_hit_count' =
                            [threshold_hit_count EXCEPT ![inst] = @ + 1]
                     /\ acc_set' = [acc_set EXCEPT ![inst] = Kept(order, ds)]
                     /\ tape' = Written(Written(tape, rand[inst] + 1, d),
                                        rand[inst] + 2, ds)
                     /\ rand' = [rand EXCEPT ![inst] = rand[inst] + 1 + size]
                     /\ pc' = [pc EXCEPT ![c] = "L161"]
                     /\ rlock' = [rlock EXCEPT ![inst] = c]
                     /\ UNCHANGED i
               ELSE /\ acc_set' = [acc_set EXCEPT ![inst] = acc]
                    /\ tape' = Written(tape, rand[inst] + 1, d)
                    /\ rand' = [rand EXCEPT ![inst] = rand[inst] + 1]
                    /\ release(inst)
                    /\ Continue(c)
                    /\ UNCHANGED <<threshold_hit_count, visited>>
        /\ updates' = [updates EXCEPT ![inst] = updates[inst] + 1]
        /\ stale' = [stale EXCEPT ![inst] = stale[inst] + 1]
    /\ fed' = [fed EXCEPT ![c] = fed[c] + 1]
    /\ UNCHANGED <<cur_probability, distinct_item_count, asked, confvars, op,
                   poll_rate, thresh, estimate, result, error, calls, writers>>

\* an update in a process of which nothing is known: a pass may visit the
\* set in any order
distinct_update(c) == update(c, FALSE)

\* an update of a run that makes, in one process, the set operations that
\* another run of the process has made: a pass visits the set as that run
\* did
distinct_update_repeated(c) == update(c, TRUE)

still_full_strict(inst, t) == Cardinality(acc_set[inst]) > t

\* line 163: if len(self.acc_set) >= thresh
still_full(inst, t) == Cardinality(acc_set[inst]) >= t

\* lines 161-167: halve the probability; a set still at the threshold raises
\* OverflowError, and leaving the with block releases the lock either way
distinct_halve(c) ==
    /\ pc[c] = "L161"
    /\ LET inst == target[c] IN
        /\ cur_probability' =
               [cur_probability EXCEPT ![inst] = Half(cur_probability[inst])]
        /\ release(inst)
        /\ IF still_full(inst, thresh[c])
           THEN /\ error' = [error EXCEPT ![c] = "OverflowError"]
                /\ pc' = [pc EXCEPT ![c] = "raised"]
                /\ Leave(c)
           ELSE /\ Continue(c)
                /\ UNCHANGED <<error, item, thresh, poll_rate>>
    /\ UNCHANGED <<acc_set, threshold_hit_count, distinct_item_count, rand,
                   asked, confvars, tape, visited, op, stream, pos, estimate, result, ghostvars>>

\* lines 169-176 with a poll due (i % poll_rate is 0): recompute the
\* estimate under the lock and restart i; then i += 1
distinct_poll(c) ==
    /\ pc[c] = "L169"
    /\ rlock[target[c]] = NoOwner
    /\ distinct_item_count' =
           [distinct_item_count EXCEPT ![target[c]] = Estimate(target[c])]
    /\ stale' = [stale EXCEPT ![target[c]] = 0]
    /\ i' = [i EXCEPT ![c] = 1]
    /\ pc' = [pc EXCEPT ![c] = "L146"]
    /\ UNCHANGED <<acc_set, cur_probability, threshold_hit_count, rand, rlock,
                   asked, confvars, tape, visited, op, poll_rate, stream, pos, thresh, item,
                   estimate, result, error, calls, writers, produced, fed, updates>>

\* line 146 giving None (the end of the source, or an item that is None),
\* and lines 178-181: the final recomputation under the lock
distinct_final(c) ==
    /\ pc[c] = "L146"
    /\ rlock[target[c]] = NoOwner
    /\ \E n \in SourceNext(c) :
        /\ n.item = None
        /\ Pull(c, n)
    /\ distinct_item_count' =
           [distinct_item_count EXCEPT ![target[c]] = Estimate(target[c])]
    /\ estimate' = [estimate EXCEPT ![c] = Estimate(target[c])]
    /\ stale' = [stale EXCEPT ![target[c]] = 0]
    /\ pc' = [pc EXCEPT ![c] = "L183"]
    /\ UNCHANGED <<acc_set, cur_probability, threshold_hit_count, rand, rlock,
                   asked, confvars, tape, visited, op, poll_rate, thresh, i, result, error,
                   calls, writers, fed, updates>>

\* line 183: return self.distinct_item_count, read after the lock was released
distinct_return(c) ==
    /\ pc[c] = "L183"
    /\ result' = [result EXCEPT ![c] = distinct_item_count[target[c]]]
    /\ pc' = [pc EXCEPT ![c] = "done"]
    /\ Leave(c)
    /\ UNCHANGED <<instvars, asked, confvars, tape, visited, op, stream, pos, estimate, error,
                   ghostvars>>

\* ------------------------------------------------------------- Next
Next ==
    \E c \in Callers :
        \/ reset_call(c)
        \/ get_threshold_hit_count(c)
        \/ distinct_call(c)
        \/ distinct_update(c)
        \/ distinct_halve(c)
        \/ distinct_poll(c)
        \/ distinct_final(c)
        \/ distinct_return(c)

Spec == Init /\ [][Next]_vars

\* ------------------------------- calculate_threshold and get_threshold
ThresholdSizes == {-1, 0, 1, 2}
\* 2^-511 has a square whose quotient is inf, 2^-538 a square that is 0.0
Tolerances ==
    {<<-1, 2>>, <<0, 1>>, <<1, 4>>, <<1, 2>>, <<1, 1>>, <<3, 2>>,
     <<1, 1, 511>>, <<1, 1, 538>>}
\* 8.0 / 2^-1021 is inf
Probabilities ==
    {<<-1, 2>>, <<0, 1>>, <<1, 4>>, <<1, 2>>, <<1, 1>>, <<3, 2>>,
     <<1, 1, 1021>>}

\* a caller has the value or the exception of a call that took no lock
Returned(c, t) ==
    /\ result' = [result EXCEPT ![c] = IF t.raised THEN NoResult ELSE t.value]
    /\ error' = [error EXCEPT ![c] = t.error]
    /\ pc' = [pc EXCEPT ![c] = IF t.raised THEN "raised" ELSE "done"]

\* lines 19-54: the module's function, called by a thread with arguments
\* of its own
calculate_threshold_call(c) ==
    /\ Invoke(c, "calculate_threshold")
    /\ \E stream_size \in ThresholdSizes, eps \in Tolerances,
          delta \in Probabilities :
        /\ asked' = [asked EXCEPT ![c] = <<stream_size, eps, delta>>]
        /\ Returned(c, calculate_threshold(stream_size, eps, delta))
    /\ UNCHANGED <<instvars, confvars, tape, visited, poll_rate, stream, thresh, i,
                   produced, updates, stale>>

\* lines 94-103: get_threshold(stream_size), which takes no lock
get_threshold_call(c) ==
    /\ Invoke(c, "get_threshold")
    /\ \E stream_size \in StreamSizes :
        /\ asked' = [asked EXCEPT ![c] = <<stream_size>>]
        /\ Returned(c, get_threshold(stream_size))
    /\ UNCHANGED <<instvars, confvars, tape, visited, poll_rate, stream, thresh, i,
                   produced, updates, stale>>

\* threads that call the function only
NextFn == \E c \in Callers : calculate_threshold_call(c)

SpecFn == Init /\ [][NextFn]_vars

\* threads that call get_threshold and distinct on one instance
NextThr ==
    \E c \in Callers :
        \/ get_threshold_call(c)
        \/ distinct_call(c)
        \/ distinct_update(c)
        \/ distinct_halve(c)
        \/ distinct_poll(c)
        \/ distinct_final(c)
        \/ distinct_return(c)

SpecThr == Init /\ [][NextThr]_vars

\* ------------------------------------- callers that wait for the lock
\* reset() and get_threshold_hit_count() in two steps: the call, which
\* comes to the with statement (line 85, line 106), and the block, which
\* runs once the lock is free
reset_enter(c) ==
    /\ Invoke(c, "reset")
    /\ pc' = [pc EXCEPT ![c] = "L85"]
    /\ result' = [result EXCEPT ![c] = NoResult]
    /\ error' = [error EXCEPT ![c] = "none"]
    /\ UNCHANGED <<instvars, asked, confvars, tape, visited, poll_rate, stream, thresh,
                   i, produced, updates, stale>>

reset_locked(c) ==
    /\ pc[c] = "L85"
    /\ rlock[target[c]] = NoOwner
    /\ reset(target[c])
    /\ pc' = [pc EXCEPT ![c] = "done"]
    /\ UNCHANGED <<rlock, asked, confvars, tape, visited, op, poll_rate, stream, pos,
                   thresh, item, i, estimate, result, error, calls, writers, produced,
                   fed>>

get_threshold_hit_count_enter(c) ==
    /\ Invoke(c, "get_threshold_hit_count")
    /\ pc' = [pc EXCEPT ![c] = "L106"]
    /\ result' = [result EXCEPT ![c] = NoResult]
    /\ error' = [error EXCEPT ![c] = "none"]
    /\ UNCHANGED <<instvars, asked, confvars, tape, visited, poll_rate, stream, thresh,
                   i, produced, updates, stale>>

get_threshold_hit_count_locked(c) ==
    /\ pc[c] = "L106"
    /\ rlock[target[c]] = NoOwner
    /\ result' = [result EXCEPT ![c] = threshold_hit_count[target[c]]]
    /\ pc' = [pc EXCEPT ![c] = "done"]
    /\ UNCHANGED <<instvars, asked, confvars, tape, visited, op, poll_rate, stream, pos,
                   thresh, item, i, estimate, error, ghostvars>>

\* one thread streams, the other calls reset and get_threshold_hit_count
Streamers == {1}
Pollers == {2}

NextLive ==
    \/ \E c \in Pollers :
        \/ reset_enter(c)
        \/ reset_locked(c)
        \/ get_threshold_hit_count_enter(c)
        \/ get_threshold_hit_count_locked(c)
    \/ \E c \in Streamers :
        \/ distinct_call(c)
        \/ distinct_update(c)
        \/ distinct_halve(c)
        \/ distinct_poll(c)
        \/ distinct_final(c)
        \/ distinct_return(c)

\* A thread that holds the lock goes on to the end of its with block; a
\* thread that waits for the lock gets it if it is free again and again.
\* Nothing makes a source produce its next item or end.
Fairness ==
    /\ \A c \in Streamers : WF_vars(distinct_halve(c))
    /\ \A c \in Pollers :
        /\ SF_vars(reset_locked(c))
        /\ SF_vars(get_threshold_hit_count_locked(c))

SpecLive == Init /\ [][NextLive]_vars /\ Fairness

\* ------------------------------------------- two instances, one seed
\* the sources whose content is fixed before the call
PresetStreams ==
    UNION {[1 .. n -> Items] : n \in 0 .. (MaxLen + 1)}

\* Caller c runs distinct on an instance of its own, DES(..., seed=s) with
\* the configuration and the seed of the other instance; the second caller
\* passes the arguments of the first.
distinct_same(c) ==
    \E src \in PresetStreams, stream_size \in StreamSizes, rate \in PollRates :
        /\ c # 1 => /\ pc[1] = "L146" /\ pos[1] = 0
                    /\ src = stream[1].items
                    /\ rate = poll_rate[1]
                    /\ get_threshold(stream_size).value = thresh[1]
        /\ distinct_enter(c, [items |-> src, closed |-> TRUE], stream_size,
                          FALSE, rate)

InitDet ==
    /\ InitInstance
    /\ InitCallers
    /\ config \in Configs
    /\ tape = <<>>
    /\ visited = <<>>
    /\ target = [c \in Callers |-> c]

NextDet ==
    \E c \in Callers :
        \/ distinct_same(c)
        \/ distinct_update(c)
        \/ distinct_halve(c)
        \/ distinct_poll(c)
        \/ distinct_final(c)
        \/ distinct_return(c)

SpecDet == InitDet /\ [][NextDet]_vars

\* ------------------------------------------- state carried between calls
\* Caller 1 makes one call of distinct, without reset, on a fresh instance
\* and a preset stream (lines 109-183, reset_state False at lines 128-129).
distinct_concatenated(c) ==
    \E src \in PresetStreams, stream_size \in StreamSizes, rate \in PollRates :
        /\ c = 1
        /\ calls = 0
        /\ distinct_body(c, [items |-> src, closed |-> TRUE], stream_size,
                         FALSE, rate)

\* Once that call is over, caller 2 calls distinct, without reset, on a
\* fresh instance of the same configuration and seed, with a prefix of the
\* stream of caller 1.
distinct_first(c) ==
    \E n \in 0 .. Len(stream[1].items) :
    \E stream_size \in StreamSizes, rate \in PollRates :
        /\ c = 2
        /\ calls = 1
        /\ pc[1] \in {"done", "raised"}
        /\ distinct_body(c, [items |-> SubSeq(stream[1].items, 1, n),
                             closed |-> TRUE],
                         stream_size, FALSE, rate)

\* When its first call has returned, caller 2 calls distinct again on the
\* same instance, without reset, with the rest of the stream of caller 1.
distinct_second(c) ==
    \E stream_size \in StreamSizes, rate \in PollRates :
        /\ c = 2
        /\ calls = 2
        /\ pc[2] = "done"
        /\ distinct_body(c, [items |-> SubSeq(stream[1].items,
                                              Len(stream[2].items) + 1,
                                              Len(stream[1].items)),
                             closed |-> TRUE],
                         stream_size, FALSE, rate)

InitCarry ==
    /\ InitInstance
    /\ InitCallers
    /\ config \in Configs
    /\ tape = <<>>
    /\ visited = <<>>
    /\ target = [c \in Callers |-> c]

NextCarry ==
    \E c \in Callers :
        \/ distinct_concatenated(c)
        \/ distinct_first(c)
        \/ distinct_second(c)
        \/ distinct_update_repeated(c)
        \/ distinct_halve(c)
        \/ distinct_poll(c)
        \/ distinct_final(c)
        \/ distinct_return(c)

SpecCarry == InitCarry /\ [][NextCarry]_vars

\* ------------------------------------------------------- properties
\* caller c is inside the loop of distinct, or between it and the return
Running(c) == pc[c] \in {"L146", "L161", "L169", "L183"}

\* no other caller has called anything
Alone(c) == \A d \in Callers \ {c} : pc[d] = "idle"

\* floor(size of the set / probability), written out
FloorOfSizeOverProbability(n) ==
    CHOOSE q \in 0 .. (Cardinality(acc_set[n]) * cur_probability[n][2]) :
        /\ q * cur_probability[n][1]
               <= Cardinality(acc_set[n]) * cur_probability[n][2]
        /\ (q + 1) * cur_probability[n][1]
               > Cardinality(acc_set[n]) * cur_probability[n][2]

\* the fields of instance n are as __init__ left them
Fresh(n) ==
    /\ acc_set[n] = {}
    /\ cur_probability[n] = <<1, 1>>
    /\ threshold_hit_count[n] = 0
    /\ distinct_item_count[n] = 0
    /\ rand[n] = 0

\* caller c enters distinct with some arguments and this reset_state
Enters(c, reset_state) ==
    \E stream_size \in StreamSizes, rate \in PollRates :
        distinct_enter(c, OpenSource, stream_size, reset_state, rate)

\* a step that runs reset() on instance n
Resets(n) ==
    \E c \in Callers : target[c] = n /\ (reset_call(c) \/ Enters(c, TRUE))

\* C1: on an instance driven with one fixed threshold T > 0, whenever the
\* lock is free the set holds fewer than T elements.
C1_SizeBelowThreshold ==
    \A n \in Instances :
        (~config.callable /\ config.value > 0 /\ rlock[n] = NoOwner)
            => Cardinality(acc_set[n]) < config.value

\* C2: whenever the lock is free, cur_probability is exactly
\* 1 / 2^_threshold_hit_count, so it lies in (0, 1]; the two differ only
\* while the lock is held between the count (line 155) and the halving
\* (line 161) of one item's update, where the count is one ahead.
C2_ProbabilityIsHalvedPerHit ==
    \A n \in Instances :
        /\ Lt(<<0, 1>>, cur_probability[n])
        /\ ~Lt(<<1, 1>>, cur_probability[n])
        /\ IF rlock[n] = NoOwner
           THEN cur_probability[n] = <<1, Pow2(threshold_hit_count[n])>>
           ELSE /\ pc[rlock[n]] = "L161"
                /\ threshold_hit_count[n] > 0
                /\ cur_probability[n] = <<1, Pow2(threshold_hit_count[n] - 1)>>

\* an update that ended in OverflowError after an earlier down-sample event
C2_Witness ==
    \E c \in Callers :
        /\ error[c] = "OverflowError"
        /\ rlock[target[c]] = NoOwner
        /\ threshold_hit_count[target[c]] = 2
        /\ cur_probability[target[c]] = <<1, 4>>

\* C3: with a single caller, a distinct call that returns gives
\* floor(len(acc_set) / cur_probability) of the state the last update left;
\* a poll leaves that value in distinct_item_count; a first call that
\* updated no item returns 0.
C3_ReturnsFloorOfSizeOverProbability ==
    \A c \in Callers :
        Alone(c) =>
            /\ (op[c] = "distinct" /\ pc[c] = "done")
                   => result[c] = FloorOfSizeOverProbability(target[c])
            /\ (pc[c] = "L146" /\ i[c] = 1)
                   => distinct_item_count[target[c]]
                          = FloorOfSizeOverProbability(target[c])
            /\ (op[c] = "distinct" /\ pc[c] = "done" /\ calls = 1 /\ fed[c] = 0)
                   => result[c] = 0

\* a call that returned 2 for a set of one element kept with probability 1/2
C3_Witness ==
    \E c \in Callers :
        /\ Alone(c)
        /\ op[c] = "distinct" /\ pc[c] = "done"
        /\ fed[c] = 2
        /\ cur_probability[target[c]] = <<1, 2>>
        /\ result[c] = 2

\* C4: two runs of distinct on two fresh instances with the same seed, the
\* same threshold and the same source end with the same estimate and the
\* same _threshold_hit_count.
C4_SameSeedSameOutcome ==
    (\A c \in Callers : op[c] = "distinct" /\ pc[c] = "done")
        => /\ result[1] = result[2]
           /\ threshold_hit_count[1] = threshold_hit_count[2]
           /\ distinct_item_count[1] = distinct_item_count[2]

\* C5: reset(), called directly or by distinct(reset_state=True), leaves
\* every field as __init__ left it, the generator back at the start of the
\* sequence of the same seed, from every state.
C5_ResetRestoresConstruction ==
    [][\A c \in Callers :
         (reset_call(c) \/ Enters(c, TRUE))
             => /\ Fresh(target[c])'
                /\ rlock'[target[c]] = NoOwner
                /\ tape' = tape
                /\ config' = config]_vars

\* a reset() that followed a call ended by OverflowError
C5_Witness ==
    \E c, d \in Callers :
        /\ op[c] = "reset" /\ pc[c] = "done"
        /\ error[d] = "OverflowError"
        /\ Fresh(target[c])
        /\ Len(tape) > 0

\* C6: a distinct call that fails on its threshold (ValueError, or the
\* assert) leaves the fields of the instance as they were.
C6_FailedCallLeavesState ==
    [][\A c \in Callers :
         ((Enters(c, TRUE) \/ Enters(c, FALSE)) /\ pc'[c] = "raised")
             => UNCHANGED <<acc_set, cur_probability, threshold_hit_count,
                            distinct_item_count, rand>>]_vars

\* C7: a distinct call that returns has made one update for each item it
\* took from the source.
C7_EveryItemUpdated ==
    \A c \in Callers :
        (op[c] = "distinct" /\ pc[c] = "done") => fed[c] = pos[c]

\* C8: an update makes at most one down-sample pass, whose result is a
\* subset of the set; the call raises OverflowError exactly when the set is
\* still at the threshold after the pass, then updates nothing more and
\* returns nothing; _threshold_hit_count never exceeds the updates made
\* since the last reset.
C8_Invariant ==
    /\ \A n \in Instances : threshold_hit_count[n] <= updates[n]
    /\ \A c \in Callers :
        error[c] = "OverflowError" => pc[c] = "raised" /\ result[c] = NoResult

C8_Step ==
    \A c \in Callers :
        LET n == target[c] IN
        /\ (pc[c] = "L146" /\ fed'[c] = fed[c] + 1)
               => /\ acc_set'[n] \subseteq acc_set[n] \cup {item'[c]}
                  /\ threshold_hit_count'[n] =
                         threshold_hit_count[n] + (IF pc'[c] = "L161" THEN 1 ELSE 0)
                  /\ pc'[c] # "L161" => Cardinality(acc_set'[n]) < thresh[c]
        /\ (pc[c] = "L161" /\ pc'[c] # "L161")
               => /\ acc_set'[n] = acc_set[n]
                  /\ threshold_hit_count'[n] = threshold_hit_count[n]
                  /\ (Cardinality(acc_set[n]) >= thresh[c])
                         <=> (pc'[c] = "raised" /\ error'[c] = "OverflowError")
        /\ (pc[c] = "raised" /\ pc'[c] = "raised") => fed'[c] = fed[c]

C8_OnePassThenOverflow == []C8_Invariant /\ [][C8_Step]_vars

\* a call ended by OverflowError in its first update
C8_Witness ==
    \E c \in Callers :
        /\ error[c] = "OverflowError" /\ pc[c] = "raised"
        /\ threshold_hit_count[target[c]] = 1
        /\ updates[target[c]] = 1

\* C9 as stated: while a distinct call is running, whatever the other
\* callers do, _threshold_hit_count never decreases and cur_probability
\* never increases.
C9_NeverDecreasesDuringRun ==
    [][\A c \in Callers :
         (Running(c) /\ Running(c)')
             => /\ threshold_hit_count'[target[c]]
                       >= threshold_hit_count[target[c]]
                /\ ~Lt(cur_probability[target[c]],
                       cur_probability'[target[c]])]_vars

\* C9 as amended: every step that is not a reset of the instance leaves
\* _threshold_hit_count or adds one to it, and leaves cur_probability or
\* halves it; a reset sets them to 0 and 1.
C9_ChangesOnlyByHitOrReset ==
    [][\A n \in Instances :
         IF Resets(n)
         THEN threshold_hit_count'[n] = 0 /\ cur_probability'[n] = <<1, 1>>
         ELSE /\ threshold_hit_count'[n] \in
                    {threshold_hit_count[n], threshold_hit_count[n] + 1}
              /\ cur_probability'[n] \in
                    {cur_probability[n],
                     <<cur_probability[n][1], 2 * cur_probability[n][2]>>}]_vars

\* another thread read a count of 1 while a distinct call was running
C9_Witness ==
    \E c, d \in Callers :
        /\ Running(c)
        /\ op[d] = "get_threshold_hit_count" /\ result[d] = 1
        /\ threshold_hit_count[target[c]] = 1

\* C10: the value a distinct call returns is the estimate its own final
\* recomputation (lines 178-181) computed.
C10_ReturnsOwnEstimate ==
    \A c \in Callers :
        (op[c] = "distinct" /\ pc[c] = "done") => result[c] = estimate[c]

\* a float argument is <= 0 or >= 1
OutsideUnitInterval(x) == x[1] <= 0 \/ (Len(x) = 2 /\ x[1] >= x[2])

\* float x <= float y, for x, y > 0
FloatLe(x, y) ==
    IF Len(x) = 3 /\ Len(y) = 3 THEN x[3] >= y[3]
    ELSE IF Len(x) = 3 THEN TRUE
    ELSE IF Len(y) = 3 THEN FALSE
    ELSE x[1] * y[2] <= y[1] * x[2]

\* the arguments <<stream_size, epsilon, delta>> of a call are invalid
InvalidArguments(a) ==
    OutsideUnitInterval(a[2]) \/ OutsideUnitInterval(a[3]) \/ a[1] <= 0

\* ceil((12 / epsilon^2) * ln(8 * stream_size / delta)) for fractions
CeilOfFormula(a) ==
    CHOOSE q \in 1 .. 2000 :
        /\ q * a[2][1] * a[2][1] * 1000000
               >= 12 * a[2][2] * a[2][2]
                      * (LogTable[8 * a[1] * a[3][2]] - LogTable[a[3][1]])
        /\ (q - 1) * a[2][1] * a[2][1] * 1000000
               < 12 * a[2][2] * a[2][2]
                     * (LogTable[8 * a[1] * a[3][2]] - LogTable[a[3][1]])

\* C11: calculate_threshold raises ValueError for every input with epsilon
\* or delta outside (0, 1) or stream_size <= 0, and returns a value for every
\* other input.
C11_RaisesExactlyOnInvalid ==
    \A c \in Callers :
        op[c] = "calculate_threshold" =>
            IF InvalidArguments(asked[c])
            THEN pc[c] = "raised" /\ error[c] = "ValueError"
            ELSE pc[c] = "done" /\ error[c] = "none" /\ result[c] # NoResult

\* the arguments are valid and none is near the end of the range of a float
Ordinary(a) == ~InvalidArguments(a) /\ Len(a[2]) = 2 /\ Len(a[3]) = 2

\* C12: for valid inputs (here with an epsilon that is an ordinary fraction,
\* whatever delta) calculate_threshold returns
\* ceil((12 / epsilon^2) * ln(8 * stream_size / delta)), a positive integer,
\* and of two calls the one with the larger stream_size and the smaller
\* epsilon and delta does not return less.
C12_ReturnsCeilOfFormula ==
    \A c \in Callers :
        (/\ op[c] = "calculate_threshold"
         /\ ~InvalidArguments(asked[c])
         /\ Len(asked[c][2]) = 2) =>
            /\ pc[c] = "done"
            /\ result[c] > 0
            /\ result[c] = CeilOfFormula(asked[c])
            /\ \A d \in Callers :
                (/\ op[d] = "calculate_threshold"
                 /\ ~InvalidArguments(asked[d])
                 /\ Len(asked[d][2]) = 2
                 /\ asked[c][1] <= asked[d][1]
                 /\ FloatLe(asked[d][2], asked[c][2])
                 /\ FloatLe(asked[d][3], asked[c][3]))
                    => pc[d] = "done" /\ result[c] <= result[d]

\* C13: get_threshold changes no field of the instance; on an instance
\* built with an integer threshold it returns that integer for every
\* stream_size, before, during and after a distinct call; and the threshold
\* a distinct call works with is the value get_threshold gives for the same
\* stream_size (the call fails where get_threshold raises or gives a value
\* that is not positive).
C13_Invariant ==
    \A c \in Callers :
        op[c] = "get_threshold" =>
            /\ pc[c] \in {"done", "raised"}
            /\ ~config.callable => pc[c] = "done" /\ result[c] = config.value

C13_Step ==
    \A c \in Callers :
        /\ get_threshold_call(c)
               => UNCHANGED <<acc_set, cur_probability, threshold_hit_count,
                              distinct_item_count, rand, rlock, tape, visited, config>>
        /\ \A stream_size \in StreamSizes :
            (\E reset_state \in BOOLEAN, rate \in PollRates :
                distinct_enter(c, OpenSource, stream_size, reset_state, rate))
                => IF pc'[c] = "L146"
                   THEN /\ ~get_threshold(stream_size).raised
                        /\ thresh'[c] = get_threshold(stream_size).value
                   ELSE \/ get_threshold(stream_size).raised
                        \/ get_threshold(stream_size).value <= 0

C13_GetThresholdIsPure == []C13_Invariant /\ [][C13_Step]_vars

\* get_threshold called while a distinct call is between two items, giving
\* the integer that call works with
C13_Witness ==
    \E c, d \in Callers :
        /\ pc[c] = "L146" /\ fed[c] >= 1
        /\ acc_set[target[c]] # {}
        /\ ~config.callable
        /\ op[d] = "get_threshold" /\ pc[d] = "done"
        /\ result[d] = thresh[c]

\* caller c is the only one that has called distinct or reset: the others,
\* if any, only read
OnlyWriter(c) == writers \subseteq {c}

\* caller c is in the loop of distinct, past the first recomputation of the
\* call (the poll that follows its first item)
PastFirstPoll(c) ==
    /\ pc[c] \in {"L146", "L161", "L169"}
    /\ fed[c] >= 2 \/ (fed[c] = 1 /\ pc[c] = "L146")

\* C14 as stated: while a distinct call with poll interval k is in its loop,
\* past its first recomputation, whenever the lock is free at most k - 1
\* item updates have completed since distinct_item_count was last
\* recomputed.
C14_StaleAtMostIntervalMinusOne ==
    \A c \in Callers :
        (OnlyWriter(c) /\ PastFirstPoll(c) /\ rlock[target[c]] = NoOwner)
            => stale[target[c]] <= poll_rate[c] - 1

\* C14 as amended: past the first recomputation at most k item updates have
\* completed since the last recomputation, and at most k - 1 when the call
\* is about to fetch an item; exactly k when a poll is due; and a poll
\* recomputes the estimate and restarts the counter i.
C14_Invariant ==
    \A c \in Callers :
        (OnlyWriter(c) /\ PastFirstPoll(c)) =>
            /\ stale[target[c]] <= poll_rate[c]
            /\ pc[c] = "L146" => stale[target[c]] <= poll_rate[c] - 1
            /\ pc[c] = "L169" => stale[target[c]] = poll_rate[c]

C14_Step ==
    \A c \in Callers :
        (OnlyWriter(c) /\ pc[c] = "L169" /\ pc'[c] = "L146") =>
            /\ stale'[target[c]] = 0
            /\ i'[c] = 1
            /\ distinct_item_count'[target[c]]
                   = FloorOfSizeOverProbability(target[c])

C14_StaleAtMostInterval == []C14_Invariant /\ [][C14_Step]_vars

\* a poll is due after the second item of a call that polls at every item,
\* the lock is free and another thread has just read the count
C14_Witness ==
    \E c, d \in Callers :
        /\ OnlyWriter(c) /\ PastFirstPoll(c)
        /\ pc[c] = "L169" /\ rlock[target[c]] = NoOwner
        /\ poll_rate[c] = 1 /\ stale[target[c]] = 1
        /\ op[d] = "get_threshold_hit_count"

\* caller c has called reset or get_threshold_hit_count and waits for the
\* lock
Waiting(c) == pc[c] \in {"L85", "L106"}

\* C15: a caller holds the lock only inside the update of one item; while
\* it fetches an item, is about to poll or to return, has returned or has
\* raised, it does not hold it. A reset or get_threshold_hit_count call that
\* waits for the lock returns, whether or not the source of a running
\* distinct call ever produces its next item or ends.
C15_Invariant ==
    /\ \A n \in Instances :
        rlock[n] # NoOwner
            => pc[rlock[n]] = "L161" /\ target[rlock[n]] = n
    /\ \A c \in Callers :
        pc[c] \in {"idle", "L85", "L106", "L146", "L169", "L183", "done",
                   "raised"}
            => rlock[target[c]] # c

C15_LockHeldPerItemOnly ==
    /\ []C15_Invariant
    /\ \A c \in Callers : Waiting(c) ~> (pc[c] = "done")

\* get_threshold_hit_count has returned 1 to a thread while the distinct
\* call of another is between two items
C15_Witness ==
    \E c, d \in Callers :
        /\ pc[c] = "L146" /\ fed[c] >= 1
        /\ op[d] = "get_threshold_hit_count" /\ pc[d] = "done"
        /\ result[d] = 1
        /\ ~stream[c].closed

\* caller c runs, or has run, the first call made on an instance built with
\* threshold=1, and no other caller has called
FirstCallThresholdOne(c) ==
    /\ Alone(c) /\ calls = 1
    /\ op[c] = "distinct"
    /\ ~config.callable /\ config.value = 1

\* the draw of line 151 made in this step on instance n was below
\* cur_probability: the item was added
ItemAdded(n) ==
    ~Lt(cur_probability[n], tape'[rand[n] + 1][2])

\* C16: in the first call on a fresh instance with threshold 1, an update
\* that adds its item makes exactly one down-sample event (one draw, for the
\* one element) and one that does not add it makes none; between updates the
\* set is empty; the update ends with the set empty or the call raises
\* OverflowError with the one element kept; a call that returns returns 0.
C16_Invariant ==
    \A c \in Callers :
        FirstCallThresholdOne(c) =>
            /\ pc[c] \in {"L146", "L169", "L183", "done"}
                   => acc_set[target[c]] = {}
            /\ pc[c] = "L161" => Cardinality(acc_set[target[c]]) <= 1
            /\ pc[c] = "raised"
                   => /\ error[c] = "OverflowError"
                      /\ Cardinality(acc_set[target[c]]) = 1
            /\ pc[c] = "done" => result[c] = 0

C16_Step ==
    \A c \in Callers :
        LET n == target[c] IN
        (FirstCallThresholdOne(c) /\ pc[c] = "L146" /\ fed'[c] = fed[c] + 1)
            => IF ItemAdded(n)
               THEN /\ pc'[c] = "L161"
                    /\ threshold_hit_count'[n] = threshold_hit_count[n] + 1
                    /\ rand'[n] = rand[n] + 2
               ELSE /\ pc'[c] # "L161"
                    /\ threshold_hit_count'[n] = threshold_hit_count[n]
                    /\ rand'[n] = rand[n] + 1
                    /\ acc_set'[n] = {}

C16_ThresholdOne == []C16_Invariant /\ [][C16_Step]_vars

\* a call that added two items, dropped each in its down-sample pass and
\* returned 0
C16_Witness ==
    \E c \in Callers :
        /\ FirstCallThresholdOne(c)
        /\ pc[c] = "done" /\ result[c] = 0
        /\ fed[c] = 2
        /\ threshold_hit_count[target[c]] = 2

\* caller c is the only caller, on an instance built with an integer
\* threshold > 0
SingleCallerFixedThreshold(c) ==
    Alone(c) /\ op[c] = "distinct" /\ ~config.callable /\ config.value > 0

\* C17: with a single caller and an integer threshold T > 0, in a first call
\* on a fresh instance the set holds fewer than T elements between updates
\* and never more than T; and an update that starts with fewer than T
\* elements (no OverflowError came before) adds at most one element, so a
\* down-sample event is triggered with exactly T elements: the pass makes T
\* draws and keeps a subset of the set with the item.
C17_Invariant ==
    \A c \in Callers :
        (SingleCallerFixedThreshold(c) /\ calls = 1) =>
            /\ Cardinality(acc_set[target[c]]) <= config.value
            /\ pc[c] \in {"L146", "L169", "L183", "done"}
                   => Cardinality(acc_set[target[c]]) < config.value

C17_Step ==
    \A c \in Callers :
        LET n == target[c] IN
        (/\ SingleCallerFixedThreshold(c)
         /\ pc[c] = "L146" /\ fed'[c] = fed[c] + 1
         /\ Cardinality(acc_set[n]) < thresh[c])
            => /\ thresh[c] = config.value
               /\ acc_set'[n] \subseteq acc_set[n] \cup {item'[c]}
               /\ Cardinality(acc_set'[n]) <= Cardinality(acc_set[n]) + 1
               /\ IF pc'[c] = "L161"
                  THEN /\ Cardinality(acc_set[n] \cup {item'[c]}) = thresh[c]
                       /\ rand'[n] = rand[n] + 1 + thresh[c]
                  ELSE /\ Cardinality(acc_set'[n]) < thresh[c]
                       /\ rand'[n] = rand[n] + 1

C17_EventAtExactlyThreshold == []C17_Invariant /\ [][C17_Step]_vars

\* the first down-sample event of a call with threshold 2, at its second
\* item: three draws were made since the first item's one
C17_Witness ==
    \E c \in Callers :
        /\ SingleCallerFixedThreshold(c) /\ calls = 1
        /\ config.value = 2
        /\ pc[c] = "L161" /\ fed[c] = 2
        /\ threshold_hit_count[target[c]] = 1
        /\ rand[target[c]] = 4

\* the second of the two calls of caller 2 is over
SecondCallOver == calls = 3 /\ pc[2] \in {"done", "raised"}

\* instance 2 is left as instance 1 is
SameState ==
    /\ acc_set[2] = acc_set[1]
    /\ cur_probability[2] = cur_probability[1]
    /\ threshold_hit_count[2] = threshold_hit_count[1]
    /\ rand[2] = rand[1]

\* C18: with the same seed and the same fixed threshold, whatever the poll
\* rates, distinct on a stream A and then, without reset, on a stream B
\* leaves the accumulator, the probability, the threshold hit count and the
\* position of the generator that one call of distinct on A followed by B
\* leaves on a fresh instance, and its second call returns what that call
\* returns; it raises where that call raises.
C18_StateCarriesOver ==
    (~config.callable /\ SecondCallOver)
        => /\ pc[2] = pc[1]
           /\ SameState
           /\ result[2] = result[1]
           /\ error[2] = error[1]

\* both runs have returned, over two non-empty streams, after a down-sample
\* in each of the two calls of caller 2
C18_Witness ==
    /\ ~config.callable
    /\ SecondCallOver
    /\ pc[1] = "done" /\ pc[2] = "done"
    /\ Len(stream[2].items) > 0
    /\ Len(stream[2].items) < Len(stream[1].items)
    /\ threshold_hit_count[2] >= 2
    /\ acc_set[2] # {}

=============================================================================
